---- MODULE Spec2Model ----
(***************************************************************************)
(* Model of the AstraAI study assistant (astra_ai.py): the quiz-response   *)
(* parser, the quiz session state machine, the chat turn (ask_question)    *)
(* and the facade operations that drive them.                              *)
(*                                                                         *)
(* Representation.  A Python str is a sequence of characters, each         *)
(* character a one-element TLA+ string (the two emoji of the feedback text *)
(* are the tokens "U+2705" and "U+274C").  An Optional value is a record   *)
(* [some, val]; None is [some |-> FALSE, val |-> <<>>].  A dict is a       *)
(* function whose DOMAIN is its key set.  The characters are those of the  *)
(* input texts below: ASCII letters, digits, punctuation, and the          *)
(* whitespace characters space, tab, CR and LF.  A percentage is carried   *)
(* as its number of tenths, so 1000 stands for 100.0.                      *)
(***************************************************************************)
EXTENDS Integers, Sequences, FiniteSets, TLC

(***************************************************************************)
(* Bounds                                                                  *)
(***************************************************************************)
MaxQuestions == 3
MaxLines == 8
\* exchanges a conversation may store before it is reset
MaxExchanges == 2
\* lines of a text read block by block
MaxTextLines == 15

(***************************************************************************)
(* str helpers                                                             *)
(***************************************************************************)
None == [some |-> FALSE, val |-> <<>>]
Some(s) == [some |-> TRUE, val |-> s]

\* bool(x) of an Optional[str]: None and '' are falsy
Truthy(o) == o.some /\ o.val # <<>>

\* characters removed by str.strip() (those of the modelled alphabet)
WhitespaceChars == {" ", "\t", "\n", "\r"}

DigitChars == <<"0", "1", "2", "3", "4", "5", "6", "7", "8", "9">>

LowerChars == <<"a", "b", "c", "d", "e", "f", "g", "h", "i", "j", "k", "l", "m",
                "n", "o", "p", "q", "r", "s", "t", "u", "v", "w", "x", "y", "z">>
UpperChars == <<"A", "B", "C", "D", "E", "F", "G", "H", "I", "J", "K", "L", "M",
                "N", "O", "P", "Q", "R", "S", "T", "U", "V", "W", "X", "Y", "Z">>

\* c.isdigit()
IsDigit(c) == \E i \in 1..Len(DigitChars) : DigitChars[i] = c

UpperChar(c) ==
    IF \E i \in 1..Len(LowerChars) : LowerChars[i] = c
    THEN UpperChars[CHOOSE i \in 1..Len(LowerChars) : LowerChars[i] = c]
    ELSE c

\* s.upper()
Upper(s) == [i \in 1..Len(s) |-> UpperChar(s[i])]

RECURSIVE LStrip(_)
LStrip(s) ==
    IF s # <<>> /\ Head(s) \in WhitespaceChars THEN LStrip(Tail(s)) ELSE s

RECURSIVE RStrip(_)
RStrip(s) ==
    IF s # <<>> /\ s[Len(s)] \in WhitespaceChars
    THEN RStrip(SubSeq(s, 1, Len(s) - 1))
    ELSE s

\* s.strip()
Strip(s) == RStrip(LStrip(s))

\* s.startswith(p)
StartsWith(s, p) == Len(s) >= Len(p) /\ SubSeq(s, 1, Len(p)) = p

\* position of the first occurrence of p in s, 0 when there is none
IndexOf(s, p) ==
    LET hits == {i \in 1..(Len(s) - Len(p) + 1) : SubSeq(s, i, i + Len(p) - 1) = p}
    IN IF hits = {} THEN 0 ELSE CHOOSE i \in hits : \A j \in hits : i <= j

\* p in s
Contains(s, p) == IndexOf(s, p) # 0

\* s.split(p, 1)[0] and s.split(p, 1)[1], for p in s
BeforeFirst(s, p) == SubSeq(s, 1, IndexOf(s, p) - 1)
AfterFirst(s, p) == SubSeq(s, IndexOf(s, p) + Len(p), Len(s))

\* s.split('\n')
RECURSIVE SplitLines(_)
SplitLines(s) ==
    IF Contains(s, <<"\n">>)
    THEN <<BeforeFirst(s, <<"\n">>)>> \o SplitLines(AfterFirst(s, <<"\n">>))
    ELSE <<s>>

\* '\n'.join(lines), used to build the input texts
RECURSIVE JoinLines(_)
JoinLines(lines) ==
    IF lines = <<>> THEN <<>>
    ELSE IF Len(lines) = 1 THEN lines[1]
    ELSE lines[1] \o <<"\n">> \o JoinLines(Tail(lines))

(***************************************************************************)
(* Quiz response parser                                                    *)
(***************************************************************************)
Labels == <<"A", "B", "C", "D">>
LabelStrs == {<<Labels[i]>> : i \in 1..Len(Labels)}

\* the empty dict
EmptyOptions == [k \in {} |-> <<>>]

\* d[key] = text
DictSet(d, key, text) ==
    [k \in (DOMAIN d) \cup {key} |-> IF k = key THEN text ELSE d[k]]

\* the accumulator opened by a question line
NewQuestion(line) ==
    [question |-> AfterFirst(line, <<".", " ">>),
     options |-> EmptyOptions,
     correct |-> None,
     explanation |-> None]

NoQuestion == [open |-> FALSE,
               q |-> [question |-> <<>>, options |-> EmptyOptions,
                      correct |-> None, explanation |-> None]]
OpenQuestion(q) == [open |-> TRUE, q |-> q]

CorrectPrefix == <<"C", "O", "R", "R", "E", "C", "T", ":">>
ExplanationPrefix == <<"E", "X", "P", "L", "A", "N", "A", "T", "I", "O", "N", ":">>

\* variant: an EXPLANATION: line appends the question and leaves it open
ParseLineKeepsOpen(st, raw) ==
    LET line == Strip(raw)
        cur == st.current_question
    IN
    IF line = <<>> THEN st
    ELSE IF IsDigit(line[1]) /\ Contains(line, <<".", " ">>) THEN
        [questions |-> IF cur.open THEN Append(st.questions, cur.q) ELSE st.questions,
         current_question |-> OpenQuestion(NewQuestion(line))]
    ELSE IF line[1] \in {"A", "B", "C", "D"} /\ Contains(line, <<")", " ">>) THEN
        IF cur.open
        THEN [st EXCEPT !.current_question.q.options =
                 DictSet(@, BeforeFirst(line, <<")", " ">>),
                         Strip(AfterFirst(line, <<")", " ">>)))]
        ELSE st
    ELSE IF StartsWith(line, CorrectPrefix) THEN
        IF cur.open
        THEN [st EXCEPT !.current_question.q.correct =
                 Some(Strip(AfterFirst(line, <<":">>)))]
        ELSE st
    ELSE IF StartsWith(line, ExplanationPrefix) THEN
        IF cur.open
        THEN LET done == [cur.q EXCEPT !.explanation = Some(Strip(AfterFirst(line, <<":">>)))]
             IN [questions |-> Append(st.questions, done),
                 current_question |-> OpenQuestion(done)]
        ELSE st
    ELSE st

\* one iteration of the loop over the lines; st = [questions, current_question]
ParseLine(st, raw) ==
    LET line == Strip(raw)
        cur == st.current_question
    IN
    IF line = <<>> THEN st
    ELSE IF IsDigit(line[1]) /\ Contains(line, <<".", " ">>) THEN
        [questions |-> IF cur.open THEN Append(st.questions, cur.q) ELSE st.questions,
         current_question |-> OpenQuestion(NewQuestion(line))]
    ELSE IF line[1] \in {"A", "B", "C", "D"} /\ Contains(line, <<")", " ">>) THEN
        IF cur.open
        THEN [st EXCEPT !.current_question.q.options =
                 DictSet(@, BeforeFirst(line, <<")", " ">>),
                         Strip(AfterFirst(line, <<")", " ">>)))]
        ELSE st
    ELSE IF StartsWith(line, CorrectPrefix) THEN
        IF cur.open
        THEN [st EXCEPT !.current_question.q.correct =
                 Some(Strip(AfterFirst(line, <<":">>)))]
        ELSE st
    ELSE IF StartsWith(line, ExplanationPrefix) THEN
        IF cur.open
        THEN [questions |-> Append(st.questions,
                 [cur.q EXCEPT !.explanation = Some(Strip(AfterFirst(line, <<":">>)))]),
              current_question |-> NoQuestion]
        ELSE st
    ELSE st

ParseStart == [questions |-> <<>>, current_question |-> NoQuestion]

\* the loop over the lines; the state after a line is computed before the
\* next line is read
RECURSIVE ParseLines(_, _)
ParseLines(st, lines) ==
    IF lines = <<>> THEN st
    ELSE LET next == ParseLine(st, Head(lines))
         IN IF next.current_question.open \in BOOLEAN
            THEN ParseLines(next, Tail(lines))
            ELSE next

\* "Add last question if exists"
FlushLast(st) ==
    IF st.current_question.open /\ Truthy(st.current_question.q.explanation)
    THEN Append(st.questions, st.current_question.q)
    ELSE st.questions

\* variant: a question without an explanation is accepted
ValidateQuestionNoExplanation(q) ==
    /\ \A l \in LabelStrs : l \in DOMAIN q.options
    /\ q.correct.some /\ q.correct.val \in LabelStrs
    /\ q.question # <<>>

\* variant: the correct label is not checked
ValidateQuestionAnyCorrect(q) ==
    /\ \A l \in LabelStrs : l \in DOMAIN q.options
    /\ q.question # <<>>
    /\ Truthy(q.explanation)

ValidateQuestion(q) ==
    /\ \A l \in LabelStrs : l \in DOMAIN q.options
    /\ q.correct.some /\ q.correct.val \in LabelStrs
    /\ q.question # <<>>
    /\ Truthy(q.explanation)

\* the questions of qs that pass validation, in order
RECURSIVE ValidQuestions(_)
ValidQuestions(qs) ==
    IF qs = <<>> THEN <<>>
    ELSE IF ValidateQuestion(Head(qs))
         THEN <<Head(qs)>> \o ValidQuestions(Tail(qs))
         ELSE ValidQuestions(Tail(qs))

ParseQuizResponse(response_text) ==
    ValidQuestions(FlushLast(ParseLines(ParseStart, SplitLines(Strip(response_text)))))

(***************************************************************************)
(* Fixed texts of the program                                              *)
(***************************************************************************)
\* "Unsupported file type: "
UnsupportedFileTypeMsg ==
    <<"U", "n", "s", "u", "p", "p", "o", "r", "t", "e", "d", " ", "f", "i",
      "l", "e", " ", "t", "y", "p", "e", ":", " ">>

\* "Document appears to be empty"
EmptyDocumentMsg ==
    <<"D", "o", "c", "u", "m", "e", "n", "t", " ", "a", "p", "p", "e", "a",
      "r", "s", " ", "t", "o", " ", "b", "e", " ", "e", "m", "p", "t", "y">>

\* "No document loaded for quiz generation"
NoDocumentMsg ==
    <<"N", "o", " ", "d", "o", "c", "u", "m", "e", "n", "t", " ", "l", "o",
      "a", "d", "e", "d", " ", "f", "o", "r", " ", "q", "u", "i", "z", " ",
      "g", "e", "n", "e", "r", "a", "t", "i", "o", "n">>

\* "Failed to generate valid quiz questions"
NoValidQuestionsMsg ==
    <<"F", "a", "i", "l", "e", "d", " ", "t", "o", " ", "g", "e", "n", "e",
      "r", "a", "t", "e", " ", "v", "a", "l", "i", "d", " ", "q", "u", "i",
      "z", " ", "q", "u", "e", "s", "t", "i", "o", "n", "s">>

\* "Quiz generation error: "
QuizGenerationErrorMsg ==
    <<"Q", "u", "i", "z", " ", "g", "e", "n", "e", "r", "a", "t", "i", "o",
      "n", " ", "e", "r", "r", "o", "r", ":", " ">>

\* "No quiz is active"
NoQuizActiveMsg ==
    <<"N", "o", " ", "q", "u", "i", "z", " ", "i", "s", " ", "a", "c", "t",
      "i", "v", "e">>

\* "No current question"
NoCurrentQuestionMsg ==
    <<"N", "o", " ", "c", "u", "r", "r", "e", "n", "t", " ", "q", "u", "e",
      "s", "t", "i", "o", "n">>

\* "Invalid answer option"
InvalidAnswerMsg ==
    <<"I", "n", "v", "a", "l", "i", "d", " ", "a", "n", "s", "w", "e", "r",
      " ", "o", "p", "t", "i", "o", "n">>

\* "U+2705 Correct! "
CorrectFeedbackPrefix ==
    <<"U+2705", " ", "C", "o", "r", "r", "e", "c", "t", "!", " ">>

\* "U+274C Incorrect. The correct answer was "
IncorrectFeedbackPrefix ==
    <<"U+274C", " ", "I", "n", "c", "o", "r", "r", "e", "c", "t", ".", " ",
      "T", "h", "e", " ", "c", "o", "r", "r", "e", "c", "t", " ", "a", "n",
      "s", "w", "e", "r", " ", "w", "a", "s", " ">>

(***************************************************************************)
(* Input texts                                                             *)
(***************************************************************************)
\* "1. What is 2+2?"
ExampleQuestionLine ==
    <<"1", ".", " ", "W", "h", "a", "t", " ", "i", "s", " ", "2", "+", "2", "?">>

\* "EXPLANATION: Basic arithmetic."
ExampleExplanationLine ==
    <<"E", "X", "P", "L", "A", "N", "A", "T", "I", "O", "N", ":", " ", "B",
      "a", "s", "i", "c", " ", "a", "r", "i", "t", "h", "m", "e", "t", "i",
      "c", ".">>

\* "Basic arithmetic."
BasicArithmetic ==
    <<"B", "a", "s", "i", "c", " ", "a", "r", "i", "t", "h", "m", "e", "t",
      "i", "c", ".">>

\* "Sorry, I cannot write a quiz."
ApologyText ==
    <<"S", "o", "r", "r", "y", ",", " ", "I", " ", "c", "a", "n", "n", "o",
      "t", " ", "w", "r", "i", "t", "e", " ", "a", " ", "q", "u", "i", "z",
      ".">>

\* "connection refused"
ConnectionRefused ==
    <<"c", "o", "n", "n", "e", "c", "t", "i", "o", "n", " ", "r", "e", "f",
      "u", "s", "e", "d">>

\* "tmp/notes.txt"
NotesPath ==
    <<"t", "m", "p", "/", "n", "o", "t", "e", "s", ".", "t", "x", "t">>

\* "tmp/empty.txt"
EmptyPath ==
    <<"t", "m", "p", "/", "e", "m", "p", "t", "y", ".", "t", "x", "t">>

\* "tmp/scan.PDF"
ScanPath ==
    <<"t", "m", "p", "/", "s", "c", "a", "n", ".", "P", "D", "F">>

\* "tmp/img.png"
ImagePath ==
    <<"t", "m", "p", "/", "i", "m", "g", ".", "p", "n", "g">>

\* "Two plus two is four."
NotesText ==
    <<"T", "w", "o", " ", "p", "l", "u", "s", " ", "t", "w", "o", " ", "i",
      "s", " ", "f", "o", "u", "r", ".">>

\* "PDF reading error: EOF marker not found"
PdfReadingErrorMsg ==
    <<"P", "D", "F", " ", "r", "e", "a", "d", "i", "n", "g", " ", "e", "r",
      "r", "o", "r", ":", " ", "E", "O", "F", " ", "m", "a", "r", "k", "e",
      "r", " ", "n", "o", "t", " ", "f", "o", "u", "n", "d">>

\* str(n) for n >= 0
RECURSIVE DecimalStr(_)
DecimalStr(n) ==
    IF n < 10 THEN <<DigitChars[n + 1]>>
    ELSE DecimalStr(n \div 10) \o <<DigitChars[(n % 10) + 1]>>

\* the label the i-th generated question names as correct (B, C, D, A, ...)
CorrectLabelOf(i) == Labels[(i % 4) + 1]

\* the explanation text of the i-th generated question
ExplanationOf(i) ==
    IF i = 1 THEN BasicArithmetic ELSE <<"W", "h", "y", " ">> \o DecimalStr(i) \o <<".">>

\* the lines of the i-th question of a reply in the expected format; the
\* first question is "1. What is 2+2?" with options 3, 4, 5, 6
QuestionLines(i) ==
    <<IF i = 1 THEN ExampleQuestionLine
      ELSE DecimalStr(i) \o <<".", " ", "Q">> \o DecimalStr(i) \o <<"?">>,
      <<"A", ")", " ">> \o DecimalStr(i + 2),
      <<"B", ")", " ">> \o DecimalStr(i + 3),
      <<"C", ")", " ">> \o DecimalStr(i + 4),
      <<"D", ")", " ">> \o DecimalStr(i + 5),
      <<"C", "O", "R", "R", "E", "C", "T", ":", " ", CorrectLabelOf(i)>>,
      <<"E", "X", "P", "L", "A", "N", "A", "T", "I", "O", "N", ":", " ">> \o ExplanationOf(i)>>

RECURSIVE QuizLines(_)
QuizLines(n) == IF n = 0 THEN <<>> ELSE QuizLines(n - 1) \o QuestionLines(n)

\* a reply of n questions in the expected format, each line ended by "\n"
QuizText(n) == IF n = 0 THEN <<>> ELSE JoinLines(QuizLines(n)) \o <<"\n">>

\* the same reply without the EXPLANATION: line of its last question
TruncatedQuizText(n) ==
    JoinLines(SubSeq(QuizLines(n), 1, Len(QuizLines(n)) - 1)) \o <<"\n">>

\* the completions the inference call may return for a quiz prompt
QuizResponses ==
    {QuizText(n) : n \in 0..MaxQuestions}
        \cup {TruncatedQuizText(n) : n \in 1..MaxQuestions}
        \cup {ApologyText}

\* _parse_quiz_response of each completion, evaluated once
ParsedResponses == [t \in QuizResponses |-> ParseQuizResponse(t)]

\* outcome of the inference call: a completion, or an exception with str(e) = err
Completion(text) == [raised |-> FALSE, text |-> text, err |-> <<>>]
Raised(err) == [raised |-> TRUE, text |-> <<>>, err |-> err]
QuizInferenceOutcomes == {Completion(t) : t \in QuizResponses} \cup {Raised(ConnectionRefused)}

\* the labels a caller may submit
AnswerInputs ==
    {<<"A">>, <<"B">>, <<"C">>, <<"D">>, <<"a">>, <<"b">>, <<"c">>, <<"d">>,
     <<"E">>, <<"e">>, <<>>, <<"A", "B">>, <<" ", "a">>, <<"1">>}

\* the files a caller may load: the path and what the reader of its format
\* yields (the text, or an exception with str(e) = err)
Files ==
    {[path |-> NotesPath, read |-> Completion(NotesText)],
     [path |-> EmptyPath, read |-> Completion(<<" ", "\n">>)],
     [path |-> ScanPath, read |-> Raised(PdfReadingErrorMsg)],
     [path |-> ImagePath, read |-> Completion(NotesText)]}

(***************************************************************************)
(* Texts of the chat turn                                                  *)
(***************************************************************************)
\* the content of the system message (three lines, the second and third
\* indented by twelve spaces)
SystemInstruction ==
    <<"Y", "o", "u", " ", "a", "r", "e", " ", "A", "S", "T", "R", "A", " ",
      "A", "I", ",", " ", "a", " ", "h", "e", "l", "p", "f", "u", "l", " ",
      "s", "t", "u", "d", "y", " ", "a", "s", "s", "i", "s", "t", "a", "n",
      "t", ".", " ", "K", "e", "e", "p", " ", "r", "e", "s", "p", "o", "n",
      "s", "e", "s", " ", "c", "o", "n", "c", "i", "s", "e", " ", "a", "n",
      "d", " ", "r", "e", "l", "e", "v", "a", "n", "t", ".", "\n", " ",
      " ", " ", " ", " ", " ", " ", " ", " ", " ", " ", " ", "I", "f", " ",
      "a", " ", "d", "o", "c", "u", "m", "e", "n", "t", " ", "i", "s", " ",
      "l", "o", "a", "d", "e", "d", ",", " ", "u", "s", "e", " ", "i", "t",
      "s", " ", "c", "o", "n", "t", "e", "n", "t", " ", "t", "o", " ", "p",
      "r", "o", "v", "i", "d", "e", " ", "a", "c", "c", "u", "r", "a", "t",
      "e", " ", "a", "n", "s", "w", "e", "r", "s", ".", " ", "M", "a", "i",
      "n", "t", "a", "i", "n", " ", "a", " ", "f", "r", "i", "e", "n", "d",
      "l", "y", " ", "a", "n", "d", "\n", " ", " ", " ", " ", " ", " ",
      " ", " ", " ", " ", " ", " ", "e", "d", "u", "c", "a", "t", "i", "o",
      "n", "a", "l", " ", "t", "o", "n", "e", " ", "w", "h", "i", "l", "e",
      " ", "b", "e", "i", "n", "g", " ", "p", "r", "e", "c", "i", "s", "e",
      " ", "a", "n", "d", " ", "i", "n", "f", "o", "r", "m", "a", "t", "i",
      "v", "e", ".">>

\* "Please ask a valid question."
ValidQuestionMsg ==
    <<"P", "l", "e", "a", "s", "e", " ", "a", "s", "k", " ", "a", " ", "v",
      "a", "l", "i", "d", " ", "q", "u", "e", "s", "t", "i", "o", "n", ".">>

\* "Goodbye! Feel free to start a new conversation when you need help!"
FarewellMsg ==
    <<"G", "o", "o", "d", "b", "y", "e", "!", " ", "F", "e", "e", "l", " ",
      "f", "r", "e", "e", " ", "t", "o", " ", "s", "t", "a", "r", "t", " ",
      "a", " ", "n", "e", "w", " ", "c", "o", "n", "v", "e", "r", "s", "a",
      "t", "i", "o", "n", " ", "w", "h", "e", "n", " ", "y", "o", "u", " ",
      "n", "e", "e", "d", " ", "h", "e", "l", "p", "!">>

\* "I apologize, but I encountered an error processing your question. Please try again."
ApologyMsg ==
    <<"I", " ", "a", "p", "o", "l", "o", "g", "i", "z", "e", ",", " ", "b",
      "u", "t", " ", "I", " ", "e", "n", "c", "o", "u", "n", "t", "e", "r",
      "e", "d", " ", "a", "n", " ", "e", "r", "r", "o", "r", " ", "p", "r",
      "o", "c", "e", "s", "s", "i", "n", "g", " ", "y", "o", "u", "r", " ",
      "q", "u", "e", "s", "t", "i", "o", "n", ".", " ", "P", "l", "e", "a",
      "s", "e", " ", "t", "r", "y", " ", "a", "g", "a", "i", "n", ".">>

\* "Error generating response: "
ErrorGeneratingPrefix ==
    <<"E", "r", "r", "o", "r", " ", "g", "e", "n", "e", "r", "a", "t", "i",
      "n", "g", " ", "r", "e", "s", "p", "o", "n", "s", "e", ":", " ">>

\* "Using content from document: "
DocumentMessagePrefix ==
    <<"U", "s", "i", "n", "g", " ", "c", "o", "n", "t", "e", "n", "t", " ",
      "f", "r", "o", "m", " ", "d", "o", "c", "u", "m", "e", "n", "t", ":",
      " ">>

\* "goodbye"
Goodbye ==
    <<"g", "o", "o", "d", "b", "y", "e">>

\* "bye"
Bye ==
    <<"b", "y", "e">>

\* "exit"
Exit ==
    <<"e", "x", "i", "t">>

\* "quit"
Quit ==
    <<"q", "u", "i", "t">>

\* "end"
End ==
    <<"e", "n", "d">>

\* "bye"
AskBye ==
    <<"b", "y", "e">>

\* "ok bye then"
AskOkByeThen ==
    <<"o", "k", " ", "b", "y", "e", " ", "t", "h", "e", "n">>

\* "BYE"
AskByeUpper ==
    <<"B", "Y", "E">>

\* "Goodbye"
AskGoodbye ==
    <<"G", "o", "o", "d", "b", "y", "e">>

\* "please<TAB>EXIT"
AskExitTab ==
    <<"p", "l", "e", "a", "s", "e", "\t", "E", "X", "I", "T">>

\* "Quit now"
AskQuitNow ==
    <<"Q", "u", "i", "t", " ", "n", "o", "w">>

\* "is this the end"
AskTheEnd ==
    <<"i", "s", " ", "t", "h", "i", "s", " ", "t", "h", "e", " ", "e", "n", "d">>

\* "bicycle"
AskBicycle ==
    <<"b", "i", "c", "y", "c", "l", "e">>

\* "weekend plans"
AskWeekend ==
    <<"w", "e", "e", "k", "e", "n", "d", " ", "p", "l", "a", "n", "s">>

\* "bye!"
AskByeBang ==
    <<"b", "y", "e", "!">>

\* "What is 2+2?"
AskTwoPlusTwo ==
    <<"W", "h", "a", "t", " ", "i", "s", " ", "2", "+", "2", "?">>

\* "Four."
ReplyFour ==
    <<"F", "o", "u", "r", ".">>

\* "tmp/long.txt"
LongPath ==
    <<"t", "m", "p", "/", "l", "o", "n", "g", ".", "t", "x", "t">>

\* a document text one character longer than max_context: the digits 1, 2,
\* ..., 9, 0 in turn
LongText == [i \in 1..1501 |-> DigitChars[(i % 10) + 1]]

\* the questions a caller may ask
Questions ==
    {AskBye, AskOkByeThen, AskByeUpper, AskGoodbye, AskExitTab, AskQuitNow, AskTheEnd,
     AskBicycle, AskWeekend, AskByeBang, <<>>, <<" ", "\n">>}

\* the outcomes of the inference call of a chat turn: a reply, a reply of
\* white space only, an exception
ChatOutcomes == {Completion(ReplyFour), Completion(<<" ", "\n">>), Raised(ConnectionRefused)}

\* the documents loaded during a conversation
ChatFiles ==
    {[path |-> NotesPath, read |-> Completion(NotesText)],
     [path |-> LongPath, read |-> Completion(LongText)],
     [path |-> ScanPath, read |-> Raised(PdfReadingErrorMsg)]}

\* the inputs of the runs that drive every operation
CoreFiles ==
    {[path |-> NotesPath, read |-> Completion(NotesText)],
     [path |-> ScanPath, read |-> Raised(PdfReadingErrorMsg)]}
CoreQuizOutcomes ==
    {Completion(QuizText(1)), Completion(QuizText(2)), Completion(ApologyText),
     Raised(ConnectionRefused)}
CoreAnswers == {<<"A">>, <<"b">>, <<"E">>}
CoreQuestions == {AskBye, AskTwoPlusTwo, <<" ", "\n">>}
CoreChatOutcomes == {Completion(ReplyFour), Raised(ConnectionRefused)}

(***************************************************************************)
(* State of one AstraAI object                                             *)
(***************************************************************************)
VARIABLES
    conversation_active,  \* bool
    chat_history,         \* list of [role, content]
    context,              \* str, '' when no document text is held
    document_name,        \* Optional[str]
    quiz_active,          \* bool
    current_quiz,         \* list of question records
    quiz_progress,        \* int
    quiz_score,           \* int
    total_questions,      \* int
    last_error,           \* Optional[str]
    answer_history,       \* the attribute _answer_history; None while it does not exist
    ret,                  \* the last call and what it returned
    submitted,            \* history: for each answer accepted in the current session,
                          \* whether it named the correct label of its question
    exchange,             \* the inference call the last operation made, if any
    seen,                 \* what the last call returned when it was a query
    parse_state,          \* parser: [questions, current_question] after the lines read
    parse_count,          \* parser: number of lines read
    parse_explanations,   \* parser: number of lines read that start with EXPLANATION:
    parse_result          \* parser: Optional list returned

quizVars == <<quiz_active, current_quiz, quiz_progress, quiz_score, total_questions>>
chatVars == <<conversation_active, chat_history>>
docVars == <<context, document_name>>
parseVars == <<parse_state, parse_count, parse_explanations, parse_result>>
objVars == <<conversation_active, chat_history, context, document_name, quiz_active,
             current_quiz, quiz_progress, quiz_score, total_questions, last_error,
             answer_history, ret, submitted, exchange, seen>>
vars == <<conversation_active, chat_history, context, document_name, quiz_active,
          current_quiz, quiz_progress, quiz_score, total_questions, last_error,
          answer_history, ret, submitted, exchange, seen,
          parse_state, parse_count, parse_explanations, parse_result>>

Returned(op, ok, text) == [op |-> op, ok |-> ok, text |-> text]

\* ollama.chat(model, messages, options) and its outcome.  Only the messages
\* of a chat turn are recorded; the quiz prompt is not modelled.
NoExchange ==
    [called |-> FALSE, purpose |-> "none", messages |-> <<>>, reply |-> Completion(<<>>)]
Exchange(purpose, messages, reply) ==
    [called |-> TRUE, purpose |-> purpose, messages |-> messages, reply |-> reply]

\* the value of a query: the Optional question of get_current_question or
\* the dict of get_quiz_status
NoStatus ==
    [active |-> FALSE, progress |-> 0, total_questions |-> 0, score |-> 0,
     percentage_tenths |-> 0, remaining |-> 0, current_streak |-> 0]
NotSeen == [kind |-> "none", question |-> [some |-> FALSE, val |-> NoQuestion.q],
            status |-> NoStatus]
SeenQuestion(q) == [kind |-> "question", question |-> q, status |-> NoStatus]
SeenStatus(st) == [kind |-> "status", question |-> [some |-> FALSE, val |-> NoQuestion.q],
                   status |-> st]

\* AstraAI.__init__
ObjInit ==
    /\ conversation_active = TRUE
    /\ chat_history = <<>>
    /\ context = <<>>
    /\ document_name = None
    /\ quiz_active = FALSE
    /\ current_quiz = <<>>
    /\ quiz_progress = 0
    /\ quiz_score = 0
    /\ total_questions = 0
    /\ last_error = None
    /\ answer_history = None
    /\ ret = Returned("__init__", TRUE, <<>>)
    /\ submitted = <<>>
    /\ exchange = NoExchange
    /\ seen = NotSeen

ParseIdle ==
    /\ parse_state = ParseStart
    /\ parse_count = 0
    /\ parse_explanations = 0
    /\ parse_result = None

Init == ObjInit /\ ParseIdle

(***************************************************************************)
(* Document loading                                                        *)
(***************************************************************************)
\* s.lower()
LowerChar(c) ==
    IF \E i \in 1..Len(UpperChars) : UpperChars[i] = c
    THEN LowerChars[CHOOSE i \in 1..Len(UpperChars) : UpperChars[i] = c]
    ELSE c
Lower(s) == [i \in 1..Len(s) |-> LowerChar(s[i])]

\* position of the last occurrence of the character c in s, 0 when there is none
LastIndexOf(s, c) ==
    LET hits == {i \in 1..Len(s) : s[i] = c}
    IN IF hits = {} THEN 0 ELSE CHOOSE i \in hits : \A j \in hits : i >= j

\* os.path.basename(path)
Basename(path) == SubSeq(path, LastIndexOf(path, "/") + 1, Len(path))

\* os.path.splitext(path)[1]: from the last dot of the base name, unless only
\* dots precede it
SplitExt(path) ==
    LET base == Basename(path)
        dot == LastIndexOf(base, ".")
    IN IF dot = 0 \/ \A i \in 1..(dot - 1) : base[i] = "."
       THEN <<>>
       ELSE SubSeq(base, dot, Len(base))

SupportedExtensions ==
    {<<".", "t", "x", "t">>, <<".", "p", "d", "f">>, <<".", "d", "o", "c", "x">>}

\* what load_document(file.path) returns, and the exception text it records
LoadResult(file) ==
    LET file_extension == Lower(SplitExt(file.path))
    IN IF file_extension \notin SupportedExtensions
       THEN [content |-> <<>>, error |-> Some(UnsupportedFileTypeMsg \o file_extension)]
       ELSE IF file.read.raised
       THEN [content |-> <<>>, error |-> Some(file.read.err)]
       ELSE IF Strip(file.read.text) = <<>>
       THEN [content |-> <<>>, error |-> Some(EmptyDocumentMsg)]
       ELSE [content |-> file.read.text, error |-> None]

LoadDocument(file) ==
    LET r == LoadResult(file) IN
    /\ document_name' = Some(Basename(file.path))
    /\ last_error' = IF r.error.some THEN r.error ELSE last_error
    /\ ret' = Returned("load_document", r.content # <<>>, r.content)
    /\ exchange' = NoExchange
    /\ seen' = NotSeen
    /\ UNCHANGED <<chatVars, context, quizVars, answer_history, submitted, parseVars>>

\* handle_file_upload of the user interface, for a file that is not empty:
\* load_document, then the content is stored as the context when there is
\* one.  Only the AstraAI object is modelled, not the page's session state.
HandleFileUpload(file) ==
    LET r == LoadResult(file) IN
    /\ document_name' = Some(Basename(file.path))
    /\ last_error' = IF r.error.some THEN r.error ELSE last_error
    /\ context' = IF r.content # <<>> THEN r.content ELSE context
    /\ ret' = Returned("handle_file_upload", r.content # <<>>, <<>>)
    /\ exchange' = NoExchange
    /\ seen' = NotSeen
    /\ UNCHANGED <<chatVars, quizVars, answer_history, submitted, parseVars>>

(***************************************************************************)
(* Chat turn                                                               *)
(***************************************************************************)
\* max_context
MaxContext == 1500

\* the number of stored turns sent with a question
HistoryWindow == 3

EndPhrases == {Goodbye, Bye, Exit, Quit, End}

\* s.split(): the maximal runs of characters that are not whitespace
RECURSIVE SplitWords(_)
SplitWords(s) ==
    LET t == LStrip(s)
        stops == {i \in 1..Len(t) : t[i] \in WhitespaceChars}
        stop == IF stops = {} THEN Len(t) + 1
                ELSE CHOOSE i \in stops : \A j \in stops : i <= j
    IN IF t = <<>> THEN <<>>
       ELSE <<SubSeq(t, 1, stop - 1)>> \o SplitWords(SubSeq(t, stop, Len(t)))

\* variant: the phrase may occur anywhere in the question
ShouldEndConversationSubstring(question) ==
    \E phrase \in EndPhrases : Contains(Lower(question), phrase)

\* _should_end_conversation
ShouldEndConversation(question) ==
    LET words == SplitWords(Lower(question))
    IN \E phrase \in EndPhrases : \E i \in 1..Len(words) : words[i] = phrase

\* _should_end_conversation of each question asked, evaluated once
EndsConversation ==
    [question \in Questions \cup CoreQuestions |-> ShouldEndConversation(question)]

Message(role, content) == [role |-> role, content |-> content]

SystemMessage == Message("system", SystemInstruction)

\* variant: the whole history is sent
RecentTurnsAll(history) == history

\* history[-3:]
RecentTurns(history) ==
    SubSeq(history, IF Len(history) > HistoryWindow
                    THEN Len(history) - HistoryWindow + 1 ELSE 1, Len(history))

\* variant: the text is not cut
ContextPreviewWhole(text) == text

\* text[:max_context]
ContextPreview(text) ==
    SubSeq(text, 1, IF Len(text) > MaxContext THEN MaxContext ELSE Len(text))

\* the system message that carries the document
DocumentMessage(name, context_preview) ==
    Message("system",
            DocumentMessagePrefix \o name \o <<"\n", "\n">> \o context_preview)

\* _prepare_messages
PrepareMessages(question) ==
    LET context_preview == ContextPreview(context)
    IN <<SystemMessage>>
           \o RecentTurns(chat_history)
           \o (IF context_preview # <<>> /\ Truthy(document_name)
               THEN <<DocumentMessage(document_name.val, context_preview)>>
               ELSE <<>>)
           \o <<Message("user", question)>>

\* variant: a blank reply is stored too
StoredAnyReply(question, response) == Strip(question) # <<>>

\* the test of _update_chat_history
Stored(question, response) == Strip(question) # <<>> /\ Strip(response) # <<>>

\* _update_chat_history
UpdateChatHistory(question, response) ==
    IF Stored(question, response)
    THEN chat_history \o <<Message("user", question), Message("assistant", response)>>
    ELSE chat_history

\* variant: the question is not trimmed before the test
IsBlankUntrimmed(question) == question = <<>>

\* not question.strip()
IsBlank(question) == Strip(question) = <<>>

\* variant: the text of the exception is returned
AskFailedReturnsError(e) == e

\* what ask_question returns when an exception is caught
AskFailed(e) == ApologyMsg

\* ask_question; inference is the outcome of ollama.chat inside
\* _generate_response, were it called.  A conversation stores at most
\* MaxExchanges exchanges.
AskQuestion(question, inference) ==
    /\ seen' = NotSeen
    /\ IF IsBlank(question)
       THEN /\ ret' = Returned("ask_question", TRUE, ValidQuestionMsg)
            /\ exchange' = NoExchange
            /\ UNCHANGED <<chatVars, last_error>>
       ELSE IF EndsConversation[question]
       THEN /\ conversation_active' = FALSE
            /\ ret' = Returned("ask_question", TRUE, FarewellMsg)
            /\ exchange' = NoExchange
            /\ UNCHANGED <<chat_history, last_error>>
       ELSE /\ IF inference.raised
               THEN LET e == ErrorGeneratingPrefix \o inference.err IN
                    /\ ret' = Returned("ask_question", FALSE, AskFailed(e))
                    /\ last_error' = Some(e)
                    /\ UNCHANGED chatVars
               ELSE /\ Stored(question, inference.text)
                        => Len(chat_history) < 2 * MaxExchanges
                    /\ ret' = Returned("ask_question", TRUE, inference.text)
                    /\ chat_history' = UpdateChatHistory(question, inference.text)
                    /\ UNCHANGED <<conversation_active, last_error>>
            /\ exchange' = Exchange("chat", PrepareMessages(question), inference)
    /\ UNCHANGED <<docVars, quizVars, answer_history, submitted, parseVars>>

(***************************************************************************)
(* Quiz session                                                            *)
(***************************************************************************)
\* variant: the first question is returned whatever the cursor
GetCurrentQuestionFirst ==
    IF ~quiz_active \/ quiz_progress >= Len(current_quiz)
    THEN [some |-> FALSE, val |-> NoQuestion.q]
    ELSE [some |-> TRUE, val |-> current_quiz[1]]

\* get_current_question: Optional question record
GetCurrentQuestion ==
    IF ~quiz_active \/ quiz_progress >= Len(current_quiz)
    THEN [some |-> FALSE, val |-> NoQuestion.q]
    ELSE [some |-> TRUE, val |-> current_quiz[quiz_progress + 1]]

\* variant: the quotient is cut, not rounded
RoundDown(num, den) == num \div den

\* round(num / den) for den > 0, ties to the even neighbour, as round() does.
\* No tie arises for num = 1000 * score and den = total below 16.
RoundHalfEven(num, den) ==
    LET q == num \div den
        r == num % den
    IN IF 2 * r < den THEN q
       ELSE IF 2 * r > den THEN q + 1
       ELSE IF q % 2 = 0 THEN q ELSE q + 1

\* the loop of _calculate_current_streak from index i (0-based) downward
RECURSIVE StreakFrom(_, _)
StreakFrom(history, i) ==
    IF i < 0 THEN 0
    ELSE IF history.some /\ Len(history.val) > i
         THEN IF history.val[i + 1] THEN 1 + StreakFrom(history, i - 1) ELSE 0
         ELSE 0

CalculateCurrentStreak == StreakFrom(answer_history, quiz_progress - 1)

\* get_quiz_status; percentage is carried in tenths (1000 is 100.0)
GetQuizStatus ==
    [active |-> quiz_active,
     progress |-> quiz_progress,
     total_questions |-> total_questions,
     score |-> quiz_score,
     percentage_tenths |-> IF total_questions > 0
                           THEN RoundHalfEven(quiz_score * 1000, total_questions)
                           ELSE 0,
     remaining |-> IF quiz_active THEN total_questions - quiz_progress ELSE 0,
     current_streak |-> CalculateCurrentStreak]

\* a call of get_current_question
CallGetCurrentQuestion ==
    /\ seen' = SeenQuestion(GetCurrentQuestion)
    /\ ret' = Returned("get_current_question", GetCurrentQuestion.some, <<>>)
    /\ exchange' = NoExchange
    /\ UNCHANGED <<chatVars, docVars, quizVars, last_error, answer_history, submitted,
                   parseVars>>

\* a call of get_quiz_status
CallGetQuizStatus ==
    /\ seen' = SeenStatus(GetQuizStatus)
    /\ ret' = Returned("get_quiz_status", TRUE, <<>>)
    /\ exchange' = NoExchange
    /\ UNCHANGED <<chatVars, docVars, quizVars, last_error, answer_history, submitted,
                   parseVars>>

\* variant: the progress cursor is not reset
EndQuizEffectKeepsProgress ==
    /\ quiz_active' = FALSE
    /\ current_quiz' = <<>>
    /\ quiz_progress' = quiz_progress
    /\ quiz_score' = 0
    /\ total_questions' = 0

EndQuizEffect ==
    /\ quiz_active' = FALSE
    /\ current_quiz' = <<>>
    /\ quiz_progress' = 0
    /\ quiz_score' = 0
    /\ total_questions' = 0

\* variant: ending the quiz also ends the conversation
EndQuizEndsConversation ==
    /\ EndQuizEffect
    /\ ret' = Returned("end_quiz", TRUE, <<>>)
    /\ submitted' = <<>>
    /\ exchange' = NoExchange
    /\ seen' = NotSeen
    /\ conversation_active' = FALSE
    /\ UNCHANGED <<chat_history, docVars, last_error, answer_history, parseVars>>

EndQuiz ==
    /\ EndQuizEffect
    /\ ret' = Returned("end_quiz", TRUE, <<>>)
    /\ submitted' = <<>>
    /\ exchange' = NoExchange
    /\ seen' = NotSeen
    /\ UNCHANGED <<chatVars, docVars, last_error, answer_history, parseVars>>

\* variant: the document is kept
ResetConversationKeepsDocument ==
    /\ chat_history' = <<>>
    /\ conversation_active' = TRUE
    /\ EndQuizEffect
    /\ last_error' = None
    /\ ret' = Returned("reset_conversation", TRUE, <<>>)
    /\ submitted' = <<>>
    /\ exchange' = NoExchange
    /\ seen' = NotSeen
    /\ UNCHANGED <<docVars, answer_history, parseVars>>

ResetConversation ==
    /\ chat_history' = <<>>
    /\ conversation_active' = TRUE
    /\ context' = <<>>
    /\ document_name' = None
    /\ EndQuizEffect
    /\ last_error' = None
    /\ ret' = Returned("reset_conversation", TRUE, <<>>)
    /\ submitted' = <<>>
    /\ exchange' = NoExchange
    /\ seen' = NotSeen
    /\ UNCHANGED <<answer_history, parseVars>>

\* variant: an empty question list is accepted
QuizGeneratedAlways(quiz_questions) == TRUE

\* "if not quiz_questions" is not taken
QuizGenerated(quiz_questions) == quiz_questions # <<>>

\* variant: the quiz fields are cleared before the inference call, so a
\* call that raises leaves no quiz
GenerateQuizDropsQuizOnError(inference) ==
    /\ exchange' = IF context = <<>> THEN NoExchange ELSE Exchange("quiz", <<>>, inference)
    /\ seen' = NotSeen
    /\ IF context = <<>>
       THEN /\ last_error' = Some(NoDocumentMsg)
            /\ ret' = Returned("generate_quiz", FALSE, <<>>)
            /\ UNCHANGED <<quizVars, submitted>>
       ELSE IF inference.raised
       THEN /\ last_error' = Some(QuizGenerationErrorMsg \o inference.err)
            /\ ret' = Returned("generate_quiz", FALSE, <<>>)
            /\ current_quiz' = <<>>
            /\ quiz_active' = FALSE
            /\ quiz_progress' = 0
            /\ quiz_score' = 0
            /\ total_questions' = 0
            /\ UNCHANGED submitted
       ELSE LET quiz_questions == ParsedResponses[inference.text] IN
            IF ~QuizGenerated(quiz_questions)
            THEN /\ last_error' = Some(NoValidQuestionsMsg)
                 /\ ret' = Returned("generate_quiz", FALSE, <<>>)
                 /\ UNCHANGED <<quizVars, submitted>>
            ELSE /\ current_quiz' = quiz_questions
                 /\ quiz_active' = TRUE
                 /\ quiz_progress' = 0
                 /\ quiz_score' = 0
                 /\ total_questions' = Len(quiz_questions)
                 /\ ret' = Returned("generate_quiz", TRUE, <<>>)
                 /\ submitted' = <<>>
                 /\ UNCHANGED last_error
    /\ UNCHANGED <<chatVars, docVars, answer_history, parseVars>>

\* generate_quiz; num_questions only shapes the prompt, the completion is
\* whatever the inference call yields
GenerateQuiz(inference) ==
    /\ exchange' = IF context = <<>> THEN NoExchange ELSE Exchange("quiz", <<>>, inference)
    /\ seen' = NotSeen
    /\ IF context = <<>>
       THEN /\ last_error' = Some(NoDocumentMsg)
            /\ ret' = Returned("generate_quiz", FALSE, <<>>)
            /\ UNCHANGED <<quizVars, submitted>>
       ELSE IF inference.raised
       THEN /\ last_error' = Some(QuizGenerationErrorMsg \o inference.err)
            /\ ret' = Returned("generate_quiz", FALSE, <<>>)
            /\ UNCHANGED <<quizVars, submitted>>
       ELSE LET quiz_questions == ParsedResponses[inference.text] IN
            IF ~QuizGenerated(quiz_questions)
            THEN /\ last_error' = Some(NoValidQuestionsMsg)
                 /\ ret' = Returned("generate_quiz", FALSE, <<>>)
                 /\ UNCHANGED <<quizVars, submitted>>
            ELSE /\ current_quiz' = quiz_questions
                 /\ quiz_active' = TRUE
                 /\ quiz_progress' = 0
                 /\ quiz_score' = 0
                 /\ total_questions' = Len(quiz_questions)
                 /\ ret' = Returned("generate_quiz", TRUE, <<>>)
                 /\ submitted' = <<>>
                 /\ UNCHANGED last_error
    /\ UNCHANGED <<chatVars, docVars, answer_history, parseVars>>

\* the two spellings of each label, and whether a submitted label is a
\* spelling of the label the question names as correct (kept for the history)
LabelSpellings ==
    {<<<<"A">>, <<"A">>>>, <<<<"a">>, <<"A">>>>, <<<<"B">>, <<"B">>>>, <<<<"b">>, <<"B">>>>,
     <<<<"C">>, <<"C">>>>, <<<<"c">>, <<"C">>>>, <<<<"D">>, <<"D">>>>, <<<<"d">>, <<"D">>>>}
NamesCorrectLabel(answer, question) == <<answer, question.correct.val>> \in LabelSpellings

\* variant: the label is compared as typed
NormalizeAnswerNoUpper(answer) == answer

\* answer.upper()
NormalizeAnswer(answer) == Upper(answer)

\* variant: any label is accepted
ValidAnswerAny(answer) == TRUE

\* answer in ['A', 'B', 'C', 'D'], after normalisation
ValidAnswer(answer) == NormalizeAnswer(answer) \in LabelStrs

\* variant: the label as typed is compared with the correct label
IsCorrectRaw(answer, question) == answer = question.correct.val

\* is_correct
IsCorrect(answer, question) == NormalizeAnswer(answer) = question.correct.val

\* variant: > in place of >=
QuizExhaustedStrict(progress) == progress > total_questions

\* quiz_progress >= total_questions, after the increment
QuizExhausted(progress) == progress >= total_questions

\* variant: the explanation alone
FeedbackBare(is_correct, question) == question.explanation.val

\* the feedback text of an accepted answer
Feedback(is_correct, question) ==
    IF is_correct
    THEN CorrectFeedbackPrefix \o question.explanation.val
    ELSE IncorrectFeedbackPrefix \o question.correct.val \o <<".", " ">>
             \o question.explanation.val

\* variant: a rejected answer still moves the cursor
SubmitRejectedAdvances(answer, message) ==
    /\ ret' = Returned("submit_answer", FALSE, message)
    /\ quiz_progress' = quiz_progress + 1
    /\ UNCHANGED <<quiz_active, current_quiz, quiz_score, total_questions, submitted>>

\* return False, message
SubmitRejected(answer, message) ==
    /\ ret' = Returned("submit_answer", FALSE, message)
    /\ UNCHANGED <<quizVars, submitted>>

SubmitAnswer(answer) ==
    /\ IF ~quiz_active
       THEN SubmitRejected(answer, NoQuizActiveMsg)
       ELSE IF ~GetCurrentQuestion.some
       THEN SubmitRejected(answer, NoCurrentQuestionMsg)
       ELSE IF ~ValidAnswer(answer)
       THEN SubmitRejected(answer, InvalidAnswerMsg)
       ELSE LET current_question == GetCurrentQuestion.val
                is_correct == IsCorrect(answer, current_question)
            IN /\ quiz_score' = IF is_correct THEN quiz_score + 1 ELSE quiz_score
               /\ quiz_progress' = quiz_progress + 1
               /\ quiz_active' = IF QuizExhausted(quiz_progress + 1)
                                 THEN FALSE ELSE quiz_active
               /\ ret' = Returned("submit_answer", is_correct,
                                  Feedback(is_correct, current_question))
               /\ submitted' = Append(submitted, NamesCorrectLabel(answer, current_question))
               /\ UNCHANGED <<current_quiz, total_questions>>
    /\ exchange' = NoExchange
    /\ seen' = NotSeen
    /\ UNCHANGED <<chatVars, docVars, last_error, answer_history, parseVars>>

Next ==
    \/ \E file \in Files : LoadDocument(file)
    \/ \E file \in Files : HandleFileUpload(file)
    \/ \E inference \in QuizInferenceOutcomes : GenerateQuiz(inference)
    \/ \E answer \in AnswerInputs : SubmitAnswer(answer)
    \/ EndQuiz
    \/ ResetConversation
    \/ CallGetCurrentQuestion
    \/ CallGetQuizStatus

Spec == Init /\ [][Next]_vars

(***************************************************************************)
(* The conversation alone: chat turns on the documents of ChatFiles as the *)
(* user interface loads them, with the full set of questions and inference *)
(* outcomes.                                                               *)
(***************************************************************************)
ChatNext ==
    \/ \E question \in Questions, inference \in ChatOutcomes :
           AskQuestion(question, inference)
    \/ \E file \in ChatFiles : HandleFileUpload(file)
    \/ ResetConversation

ChatSpec == Init /\ [][ChatNext]_vars

(***************************************************************************)
(* Every operation of the object in any order, on the inputs CoreFiles,    *)
(* CoreQuizOutcomes, CoreAnswers, CoreQuestions and CoreChatOutcomes.      *)
(***************************************************************************)
FullNext ==
    \/ \E file \in CoreFiles : LoadDocument(file)
    \/ \E file \in CoreFiles : HandleFileUpload(file)
    \/ \E inference \in CoreQuizOutcomes : GenerateQuiz(inference)
    \/ \E answer \in CoreAnswers : SubmitAnswer(answer)
    \/ EndQuiz
    \/ ResetConversation
    \/ \E question \in CoreQuestions, inference \in CoreChatOutcomes :
           AskQuestion(question, inference)
    \/ CallGetCurrentQuestion
    \/ CallGetQuizStatus

FullSpec == Init /\ [][FullNext]_vars

(***************************************************************************)
(* The parser, line by line                                                *)
(*                                                                         *)
(* _parse_quiz_response strips the text, splits it at "\n" and runs the    *)
(* loop body on each line in turn.  ReadLine is one iteration on a line    *)
(* drawn from ParseLinePool, FinishParse is the code after the loop; a run *)
(* of k ReadLine steps and FinishParse is the parse of the text made of    *)
(* those k lines joined by "\n".                                           *)
(***************************************************************************)
ParseLinePool ==
    {<<"1", ".", " ", " ", "Q", "?">>,
     <<" ", "A", ")", " ", "a">>,
     <<"B", ")", " ", "b">>,
     <<"C", ")", " ", "c">>,
     <<"D", ")", " ", "d", "\r">>,
     <<"A", "b", ")", " ", "x">>,
     <<"2", " ", "x", ".", " ", " ", "Q", "?">>,
     <<"C", "O", "R", "R", "E", "C", "T", ":", " ", "B">>,
     <<"C", "O", "R", "R", "E", "C", "T", ":", " ", "E">>,
     <<"E", "X", "P", "L", "A", "N", "A", "T", "I", "O", "N", ":", " ", "e">>,
     <<"E", "X", "P", "L", "A", "N", "A", "T", "I", "O", "N", ":", " ">>,
     <<" ">>}

ReadLine(line) ==
    /\ ~parse_result.some
    /\ parse_count < MaxLines
    /\ parse_state' = ParseLine(parse_state, line)
    /\ parse_count' = parse_count + 1
    /\ parse_explanations' =
           IF StartsWith(Strip(line), ExplanationPrefix)
           THEN parse_explanations + 1
           ELSE parse_explanations
    /\ UNCHANGED <<parse_result, objVars>>

FinishParse ==
    /\ ~parse_result.some
    /\ parse_result' = Some(ValidQuestions(FlushLast(parse_state)))
    /\ UNCHANGED <<parse_state, parse_count, parse_explanations, objVars>>

ParseNext ==
    \/ \E line \in ParseLinePool : ReadLine(line)
    \/ FinishParse

ParseSpec == Init /\ [][ParseNext]_vars

(***************************************************************************)
(* The parser on longer texts, read a block of lines at a time: the loop   *)
(* runs over the lines of the block.  The blocks are whole questions in    *)
(* the expected format, a question without its EXPLANATION: line, and      *)
(* single lines; a run of ReadBlock steps and FinishParse is the parse of  *)
(* the text made of the lines of those blocks.                             *)
(***************************************************************************)
ParseBlockPool ==
    {QuestionLines(1),
     QuestionLines(2),
     SubSeq(QuestionLines(3), 1, 6),
     <<QuestionLines(1)[7]>>,
     <<<<"2", " ", "x", ".", " ", " ", "Q", "?">>>>,
     <<<<" ">>>>}

\* the number of lines of a block that start with EXPLANATION: once trimmed
ExplanationLines(lines) ==
    Cardinality({i \in 1..Len(lines) : StartsWith(Strip(lines[i]), ExplanationPrefix)})

ReadBlock(lines) ==
    /\ ~parse_result.some
    /\ parse_count + Len(lines) <= MaxTextLines
    /\ parse_state' = ParseLines(parse_state, lines)
    /\ parse_count' = parse_count + Len(lines)
    /\ parse_explanations' = parse_explanations + ExplanationLines(lines)
    /\ UNCHANGED <<parse_result, objVars>>

BlockNext ==
    \/ \E lines \in ParseBlockPool : ReadBlock(lines)
    \/ FinishParse

BlockSpec == Init /\ [][BlockNext]_vars

(***************************************************************************)
(* Properties                                                              *)
(***************************************************************************)
\* the quiz is InProgress
InProgress == quiz_active /\ quiz_progress < Len(current_quiz)

\* the labels A/B/C/D in either case
EitherCaseLabels ==
    {<<"A">>, <<"B">>, <<"C">>, <<"D">>, <<"a">>, <<"b">>, <<"c">>, <<"d">>}

\* length of the trailing run of TRUE in a sequence of booleans
RECURSIVE TrailingRun(_)
TrailingRun(bs) ==
    IF bs = <<>> \/ ~bs[Len(bs)] THEN 0 ELSE 1 + TrailingRun(SubSeq(bs, 1, Len(bs) - 1))

\* C1: the current_streak reported by status equals the length of the
\* trailing run of correct answers among the answers submitted so far.
C1_StreakIsTrailingRun == GetQuizStatus.current_streak = TrailingRun(submitted)

\* C2: in every reachable state 0 <= quiz_progress <= number of questions,
\* quiz_score <= quiz_progress, and total_questions is the length of the
\* stored question sequence.
C2_QuizBounds ==
    /\ 0 <= quiz_progress
    /\ quiz_progress <= Len(current_quiz)
    /\ quiz_score <= quiz_progress
    /\ total_questions = Len(current_quiz)

C2_Witness ==
    /\ ~quiz_active
    /\ Len(current_quiz) >= 2
    /\ quiz_progress = Len(current_quiz)
    /\ 1 <= quiz_score
    /\ quiz_score < quiz_progress

\* C3: the active flag is true exactly while progress < length, and it turns
\* from true to false only in the submit that makes progress reach the length
\* or in an explicit end or reset.
C3_ActiveExactlyInProgress ==
    /\ [](quiz_active <=> quiz_progress < Len(current_quiz))
    /\ [][(quiz_active /\ ~quiz_active') =>
            \/ /\ \E answer \in AnswerInputs : SubmitAnswer(answer)
               /\ quiz_progress < Len(current_quiz)
               /\ quiz_progress' = Len(current_quiz')
            \/ EndQuiz
            \/ ResetConversation]_vars

C3_Witness ==
    /\ ret.op = "submit_answer"
    /\ ret.text \notin {NoQuizActiveMsg, NoCurrentQuestionMsg, InvalidAnswerMsg}
    /\ ~quiz_active
    /\ Len(current_quiz) = 2
    /\ quiz_progress = 2

\* C4: a submit of A/B/C/D in either case while InProgress advances progress
\* by one, adds one to the score iff the label names the correct label of the
\* question at the cursor, and returns that comparison as is_correct.
C4_ValidSubmitAdvances ==
    [][\A answer \in EitherCaseLabels :
          (InProgress /\ SubmitAnswer(answer)) =>
              LET right == NamesCorrectLabel(answer, current_quiz[quiz_progress + 1])
              IN /\ quiz_progress' = quiz_progress + 1
                 /\ quiz_score' = quiz_score + (IF right THEN 1 ELSE 0)
                 /\ ret'.ok = right]_vars

C4_Witness ==
    /\ ret.op = "submit_answer"
    /\ ret.ok
    /\ quiz_active
    /\ quiz_progress = 2
    /\ quiz_score = 1

\* C5 as stated: the feedback text of a valid submit is exactly the
\* explanation of the question just answered.
C5_FeedbackIsExplanation ==
    [][\A answer \in EitherCaseLabels :
          (InProgress /\ SubmitAnswer(answer)) =>
              ret'.text = current_quiz[quiz_progress + 1].explanation.val]_vars

\* C5 amended: the feedback text of a valid submit is a verdict followed by
\* the explanation of the question just answered: "U+2705 Correct! " when
\* the answer is correct, "U+274C Incorrect. The correct answer was X. "
\* with X the correct label when it is not.
C5_FeedbackIsVerdictThenExplanation ==
    [][\A answer \in EitherCaseLabels :
          (InProgress /\ SubmitAnswer(answer)) =>
              LET asked == current_quiz[quiz_progress + 1]
              IN ret'.text =
                   (IF ret'.ok
                    THEN CorrectFeedbackPrefix
                    ELSE IncorrectFeedbackPrefix \o asked.correct.val \o <<".", " ">>)
                   \o asked.explanation.val]_vars

C5_Witness ==
    /\ ret = Returned("submit_answer", TRUE, CorrectFeedbackPrefix \o BasicArithmetic)
    /\ Len(current_quiz) = 1
    /\ ~quiz_active

\* C6: a submit while InProgress of a label that is not A/B/C/D in either
\* case returns (false, "Invalid answer option") and leaves progress, score,
\* active, the questions and the total unchanged.
C6_InvalidLabelRejected ==
    [][\A answer \in AnswerInputs \ EitherCaseLabels :
          (InProgress /\ SubmitAnswer(answer)) =>
              /\ ret' = Returned("submit_answer", FALSE, InvalidAnswerMsg)
              /\ UNCHANGED quizVars]_vars

C6_Witness ==
    /\ ret = Returned("submit_answer", FALSE, InvalidAnswerMsg)
    /\ quiz_active
    /\ quiz_progress = 1

\* C7: a submit while no quiz is active returns is_correct false with the
\* not-active or no-current-question message and changes nothing else, for
\* every label.
C7_InactiveSubmitRejected ==
    [][\A answer \in AnswerInputs :
          (~quiz_active /\ SubmitAnswer(answer)) =>
              /\ ~ret'.ok
              /\ ret'.text \in {NoQuizActiveMsg, NoCurrentQuestionMsg}
              /\ UNCHANGED <<quizVars, chatVars, docVars, last_error, answer_history>>]_vars

C7_Witness ==
    /\ ret = Returned("submit_answer", FALSE, NoQuizActiveMsg)
    /\ Len(current_quiz) >= 1
    /\ quiz_progress = Len(current_quiz)

\* every answer accepted so far named the correct label
AllRight == \A i \in 1..Len(submitted) : submitted[i]

\* C8: in a session of N >= 1 questions where every accepted answer names the
\* correct label, the session stays active until N answers are in and is then
\* inactive with score N and percentage 100.0.
C8_AllCorrectCompletes ==
    (Len(current_quiz) >= 1 /\ AllRight) =>
        /\ quiz_progress = Len(submitted)
        /\ quiz_score = Len(submitted)
        /\ quiz_active <=> Len(submitted) < Len(current_quiz)
        /\ Len(submitted) = Len(current_quiz) =>
               /\ GetQuizStatus.score = Len(current_quiz)
               /\ GetQuizStatus.percentage_tenths = 1000

C8_Witness ==
    /\ Len(current_quiz) >= 2
    /\ Len(submitted) = Len(current_quiz)
    /\ AllRight
    /\ ~quiz_active
    /\ GetQuizStatus.percentage_tenths = 1000

\* C9: a generate_quiz whose completion parses to no question returns false
\* and starts no session: the quiz fields stay as they were.
C9_EmptyParseFails ==
    [][\A inference \in QuizInferenceOutcomes :
          (/\ context # <<>>
           /\ ~inference.raised
           /\ ParsedResponses[inference.text] = <<>>
           /\ GenerateQuiz(inference)) =>
              /\ ~ret'.ok
              /\ UNCHANGED quizVars
              /\ (~quiz_active => ~quiz_active')]_vars

C9_Witness ==
    /\ ret = Returned("generate_quiz", FALSE, <<>>)
    /\ last_error = Some(NoValidQuestionsMsg)
    /\ context # <<>>
    /\ ~quiz_active

\* the well-formedness of a question record
WellFormed(q) ==
    /\ {<<"A">>, <<"B">>, <<"C">>, <<"D">>} \subseteq DOMAIN q.options
    /\ q.correct.some
    /\ q.correct.val \in {<<"A">>, <<"B">>, <<"C">>, <<"D">>}
    /\ Strip(q.question) # <<>>
    /\ q.explanation.some
    /\ Strip(q.explanation.val) # <<>>

\* C10: every question the parser returns has the four option labels, a
\* correct label among them, and a prompt and an explanation that are not
\* empty after trimming.
C10_ParserWellFormed ==
    parse_result.some => \A i \in 1..Len(parse_result.val) : WellFormed(parse_result.val[i])

C10_Witness ==
    /\ parse_result.some
    /\ Len(parse_result.val) >= 1
    /\ Len(FlushLast(parse_state)) > Len(parse_result.val)

(***************************************************************************)
(* C11                                                                     *)
(***************************************************************************)
\* the text of the i-th generated question: its line after "<i>. "
QuestionTextOf(i) ==
    SubSeq(QuestionLines(i)[1], Len(DecimalStr(i)) + 3, Len(QuestionLines(i)[1]))

\* the i-th question of a reply in the expected format, as written in the reply
ExpectedQuestion(i) ==
    [question |-> QuestionTextOf(i),
     options |-> [l \in LabelStrs |->
                     IF l = <<"A">> THEN DecimalStr(i + 2)
                     ELSE IF l = <<"B">> THEN DecimalStr(i + 3)
                     ELSE IF l = <<"C">> THEN DecimalStr(i + 4)
                     ELSE DecimalStr(i + 5)],
     correct |-> Some(<<CorrectLabelOf(i)>>),
     explanation |-> Some(ExplanationOf(i))]

\* the first n questions of such a reply
ExpectedQuiz == [n \in 0..MaxQuestions |-> [i \in 1..n |-> ExpectedQuestion(i)]]

\* the replies of n questions, whole and without the last EXPLANATION: line
WholeReplies == [n \in 1..MaxQuestions |-> Completion(QuizText(n))]
TruncatedReplies == [n \in 1..MaxQuestions |-> Completion(TruncatedQuizText(n))]

\* C11: when the reply to a quiz prompt is n well-formed questions the quiz
\* is exactly those n questions, and when the EXPLANATION: line of the last
\* one is missing it is exactly the first n - 1 of them, unchanged and in
\* order (for n = 1 no question is left and the generation fails).
C11_TruncatedLastDropped ==
    \A n \in 1..MaxQuestions :
        /\ (exchange.purpose = "quiz" /\ exchange.reply = WholeReplies[n])
               => ret.ok /\ current_quiz = ExpectedQuiz[n]
        /\ (exchange.purpose = "quiz" /\ exchange.reply = TruncatedReplies[n])
               => IF n = 1
                  THEN ~ret.ok /\ last_error = Some(NoValidQuestionsMsg)
                  ELSE ret.ok /\ current_quiz = ExpectedQuiz[n - 1]

C11_Witness ==
    /\ exchange.purpose = "quiz"
    /\ exchange.reply = TruncatedReplies[MaxQuestions]
    /\ ret.op = "generate_quiz"
    /\ ret.ok
    /\ Len(current_quiz) = MaxQuestions - 1
    /\ current_quiz[MaxQuestions - 1] = ExpectedQuestion(MaxQuestions - 1)

(***************************************************************************)
(* C12                                                                     *)
(***************************************************************************)
\* C12: the messages sent for a chat turn are the fixed system instruction,
\* then the last min(3, length) stored turns as stored and in their order,
\* then at most one document message, then the user's question; building
\* them leaves the stored turns, the active flag and the document as they
\* were (the turns of the exchange are appended to the stored ones).
C12_MessageListShape ==
    [][\A question \in Questions, inference \in ChatOutcomes :
          (exchange'.called /\ AskQuestion(question, inference)) =>
              LET messages == exchange'.messages
                  n == Len(messages)
                  len == Len(chat_history)
                  k == IF len < 3 THEN len ELSE 3
              IN /\ messages[1] = [role |-> "system", content |-> SystemInstruction]
                 /\ \A j \in 1..k : messages[1 + j] = chat_history[len - k + j]
                 /\ n \in {k + 2, k + 3}
                 /\ n = k + 3 =>
                        /\ messages[k + 2].role = "system"
                        /\ StartsWith(messages[k + 2].content, DocumentMessagePrefix)
                 /\ messages[n] = [role |-> "user", content |-> question]
                 /\ SubSeq(chat_history', 1, len) = chat_history
                 /\ UNCHANGED <<conversation_active, context, document_name>>]_vars

\* a question asked on four stored turns and a document: six messages, the
\* second one the reply of the first stored exchange
C12_Witness ==
    /\ ret.op = "ask_question"
    /\ exchange.called
    /\ Len(chat_history) = 4
    /\ Len(exchange.messages) = 6
    /\ exchange.messages[2] = chat_history[2]
    /\ exchange.messages[2].role = "assistant"
    /\ exchange.messages[6].role = "user"

(***************************************************************************)
(* C13                                                                     *)
(***************************************************************************)
\* a document is loaded: its text and its identifier are held
DocumentLoaded == context # <<>> /\ document_name.some

\* C13: when a document is loaded the messages sent for a chat turn hold
\* exactly one system message besides the first, placed just before the
\* user's question (so after the stored turns), and its content is
\* "Using content from document: ", the document identifier, an empty line
\* and the first 1500 characters of the document text (all of it when it is
\* shorter); when no document is loaded there is no such message.
C13_DocumentMessage ==
    [][\A question \in Questions, inference \in ChatOutcomes :
          (exchange'.called /\ AskQuestion(question, inference)) =>
              LET messages == exchange'.messages
                  n == Len(messages)
                  extra == {j \in 2..n : messages[j].role = "system"}
                  cut == IF Len(context) < 1500 THEN Len(context) ELSE 1500
              IN IF DocumentLoaded
                 THEN /\ extra = {n - 1}
                      /\ messages[n - 1].content =
                             DocumentMessagePrefix \o document_name.val
                                 \o <<"\n", "\n">> \o SubSeq(context, 1, cut)
                 ELSE extra = {}]_vars

\* a question asked on a document of 1501 characters: the document message
\* carries 1500 of them
C13_Witness ==
    /\ ret.op = "ask_question"
    /\ exchange.called
    /\ Len(context) = 1501
    /\ Len(exchange.messages) >= 3
    /\ LET m == exchange.messages[Len(exchange.messages) - 1]
       IN /\ m.role = "system"
          /\ Len(m.content) = Len(DocumentMessagePrefix) + Len(document_name.val) + 2 + 1500
          /\ m.content[Len(m.content)] = context[1500]

(***************************************************************************)
(* C14                                                                     *)
(***************************************************************************)
\* the phrase occurs in the text as a white-space-delimited word: between
\* white space or the ends of the text
OccursAsWord(text, phrase) ==
    \E i \in 1..(Len(text) - Len(phrase) + 1) :
        /\ SubSeq(text, i, i + Len(phrase) - 1) = phrase
        /\ i = 1 \/ text[i - 1] \in WhitespaceChars
        /\ i + Len(phrase) > Len(text) \/ text[i + Len(phrase)] \in WhitespaceChars

\* the phrase occurs in the text
Occurs(text, phrase) ==
    \E i \in 1..(Len(text) - Len(phrase) + 1) : SubSeq(text, i, i + Len(phrase) - 1) = phrase

HasEndWord(question) == \E phrase \in EndPhrases : OccursAsWord(Lower(question), phrase)

\* the question is not blank and holds no end phrase as a white-space-
\* delimited word; it may hold one inside a longer word ("weekend"), one
\* with punctuation attached ("bye!") or none ("bicycle")
HasNoEndWord(question) ==
    /\ \E i \in 1..Len(question) : question[i] \notin WhitespaceChars
    /\ ~HasEndWord(question)
HasEndPhraseInside(question) ==
    /\ HasNoEndWord(question)
    /\ \E phrase \in EndPhrases : Occurs(Lower(question), phrase)

\* the questions asked, by kind
EndWordQuestions == {question \in Questions : HasEndWord(question)}
NoEndWordQuestions == {question \in Questions : HasNoEndWord(question)}
EndPhraseInsideQuestions == {question \in Questions : HasEndPhraseInside(question)}

\* a letter or a digit
IsWordChar(c) ==
    \/ \E i \in 1..Len(LowerChars) : LowerChars[i] = c
    \/ \E i \in 1..Len(UpperChars) : UpperChars[i] = c
    \/ \E i \in 1..Len(DigitChars) : DigitChars[i] = c

\* the phrase occurs in the text as a whole word: no letter or digit
\* stands right before or right after it
OccursAsWholeWord(text, phrase) ==
    \E i \in 1..(Len(text) - Len(phrase) + 1) :
        /\ SubSeq(text, i, i + Len(phrase) - 1) = phrase
        /\ i = 1 \/ ~IsWordChar(text[i - 1])
        /\ i + Len(phrase) > Len(text) \/ ~IsWordChar(text[i + Len(phrase)])

HasEndWholeWord(question) ==
    \E phrase \in EndPhrases : OccursAsWholeWord(Lower(question), phrase)

\* the questions that hold an end phrase as a whole word, and those that
\* hold one only as part of a longer word
WholeWordQuestions == {question \in Questions : HasEndWholeWord(question)}
OnlyInsideWordQuestions ==
    {question \in Questions :
        /\ ~HasEndWholeWord(question)
        /\ \E phrase \in EndPhrases : Occurs(Lower(question), phrase)}

\* C14 as stated: asking a question that holds goodbye, bye, exit, quit or
\* end as a whole word, in any letter case, sets the conversation inactive,
\* returns the farewell text, makes no inference call and stores no turn;
\* a question that holds an end phrase only as part of a longer word does
\* not end the conversation.
C14_WholeWordEndsConversation ==
    [][\A question \in Questions, inference \in ChatOutcomes :
          AskQuestion(question, inference) =>
              /\ question \in WholeWordQuestions =>
                     /\ conversation_active' = FALSE
                     /\ ret'.text = FarewellMsg
                     /\ ~exchange'.called
                     /\ chat_history' = chat_history
              /\ question \in OnlyInsideWordQuestions =>
                     /\ conversation_active' = conversation_active
                     /\ ret'.text # FarewellMsg]_vars

\* C14: asking a question that holds goodbye, bye, exit, quit or end as a
\* white-space-delimited word, in any letter case, sets the conversation
\* inactive, returns the farewell text, makes no inference call and stores
\* no turn; a question that is not blank and holds no end phrase as such a
\* word, be it one that holds an end phrase inside a longer word or with
\* punctuation attached, goes to the inference call and leaves the
\* conversation flag as it was.
C14_EndPhraseEndsConversation ==
    [][\A question \in Questions, inference \in ChatOutcomes :
          AskQuestion(question, inference) =>
              /\ question \in EndWordQuestions =>
                     /\ conversation_active' = FALSE
                     /\ ret'.text = FarewellMsg
                     /\ ~exchange'.called
                     /\ chat_history' = chat_history
              /\ question \in NoEndWordQuestions =>
                     /\ conversation_active' = conversation_active
                     /\ ret'.text # FarewellMsg
                     /\ exchange'.called]_vars

\* the conversation was ended after "bye!" and a question that holds an
\* end phrase inside a longer word had both been answered and stored
C14_Witness ==
    /\ ret = Returned("ask_question", TRUE, FarewellMsg)
    /\ ~conversation_active
    /\ ~exchange.called
    /\ \E i \in 1..Len(chat_history) :
           /\ chat_history[i].role = "user"
           /\ chat_history[i].content = AskByeBang
    /\ \E i \in 1..Len(chat_history) :
           /\ chat_history[i].role = "user"
           /\ chat_history[i].content \in EndPhraseInsideQuestions \ {AskByeBang}

(***************************************************************************)
(* C15                                                                     *)
(***************************************************************************)
\* the questions asked that hold white space only, or nothing
BlankQuestions ==
    {question \in Questions : \A i \in 1..Len(question) : question[i] \in WhitespaceChars}

\* C15: asking a question that is empty or white space only returns
\* "Please ask a valid question.", makes no inference call and leaves the
\* stored turns, the active flag, the document and the last error unchanged.
C15_BlankQuestionIgnored ==
    [][\A question \in BlankQuestions, inference \in ChatOutcomes :
          AskQuestion(question, inference) =>
              /\ ret'.text = ValidQuestionMsg
              /\ ~exchange'.called
              /\ UNCHANGED <<chat_history, conversation_active, context, document_name,
                             last_error>>]_vars

\* a blank question was asked in an ended conversation that holds turns, a
\* document and an error
C15_Witness ==
    /\ ret = Returned("ask_question", TRUE, ValidQuestionMsg)
    /\ ~exchange.called
    /\ chat_history # <<>>
    /\ ~conversation_active
    /\ context # <<>>
    /\ last_error.some

(***************************************************************************)
(* C16                                                                     *)
(***************************************************************************)
NotBlank(text) == \E i \in 1..Len(text) : text[i] \notin WhitespaceChars

\* even length, user and assistant turns in alternation from a user turn,
\* no blank text
HistoryWellFormed ==
    /\ Len(chat_history) % 2 = 0
    /\ \A i \in 1..Len(chat_history) :
           /\ chat_history[i].role = IF i % 2 = 1 THEN "user" ELSE "assistant"
           /\ NotBlank(chat_history[i].content)

\* the step is an exchange whose question and reply are not blank and
\* appends the question as a user turn, then the reply as an assistant turn
AppendsExchange ==
    \E question \in Questions, inference \in ChatOutcomes :
        /\ ~inference.raised
        /\ NotBlank(question)
        /\ NotBlank(inference.text)
        /\ chat_history' = chat_history \o <<[role |-> "user", content |-> question],
                                             [role |-> "assistant", content |-> inference.text]>>
        /\ AskQuestion(question, inference)

\* an exchange whose reply is blank appends nothing
BlankReplyAppendsNothing ==
    \A question \in Questions, inference \in ChatOutcomes :
        (~inference.raised /\ ~NotBlank(inference.text) /\ AskQuestion(question, inference))
            => chat_history' = chat_history

\* C16 as stated: the stored turns change only by the appending of a user
\* turn and an assistant turn after an exchange whose question and reply are
\* not blank, a blank reply appends nothing, and the stored turns are always
\* of even length, alternate from a user turn and hold no blank text.
C16_HistoryOnlyAppended ==
    /\ []HistoryWellFormed
    /\ [][/\ chat_history' # chat_history => AppendsExchange
          /\ BlankReplyAppendsNothing]_vars

\* C16, amended: the stored turns change only by such an appending or by
\* being emptied by reset_conversation; a blank reply appends nothing, and
\* the stored turns are always of even length, alternate from a user turn
\* and hold no blank text.
C16_HistoryAppendedOrCleared ==
    /\ []HistoryWellFormed
    /\ [][/\ chat_history' # chat_history =>
                 \/ AppendsExchange
                 \/ ResetConversation /\ chat_history' = <<>>
          /\ BlankReplyAppendsNothing]_vars

\* a second exchange was stored: its question and its reply are the third
\* and fourth turns
C16_Witness ==
    /\ ret = Returned("ask_question", TRUE, ReplyFour)
    /\ exchange.called
    /\ Len(chat_history) = 4
    /\ chat_history[3] = exchange.messages[Len(exchange.messages)]
    /\ chat_history[4] = [role |-> "assistant", content |-> ReplyFour]

(***************************************************************************)
(* C17                                                                     *)
(***************************************************************************)
\* C17: when the inference call of a chat turn raises, ask_question returns
\* the apology text "I apologize, but I encountered an error processing
\* your question. Please try again.", which does not hold the text of the
\* exception; it stores no turn, leaves the active flag as it was and
\* records in last_error a text that holds the text of the exception.
C17_InferenceFailureCaught ==
    [][\A question \in Questions, inference \in ChatOutcomes :
          (exchange'.called /\ inference.raised /\ AskQuestion(question, inference)) =>
              /\ ret'.text = ApologyMsg
              /\ ~Occurs(ret'.text, inference.err)
              /\ chat_history' = chat_history
              /\ conversation_active' = conversation_active
              /\ last_error'.some
              /\ Occurs(last_error'.val, inference.err)]_vars

\* the inference call failed in an ended conversation that holds turns
C17_Witness ==
    /\ ret = Returned("ask_question", FALSE, ApologyMsg)
    /\ exchange.called
    /\ exchange.reply = Raised(ConnectionRefused)
    /\ last_error = Some(ErrorGeneratingPrefix \o ConnectionRefused)
    /\ chat_history # <<>>
    /\ ~conversation_active

(***************************************************************************)
(* C18                                                                     *)
(***************************************************************************)
\* the conversation, document and quiz fields have the values __init__
\* gives them
AsConstructed ==
    /\ chat_history = <<>>
    /\ conversation_active = TRUE
    /\ document_name = None
    /\ context = <<>>
    /\ quiz_active = FALSE
    /\ current_quiz = <<>>
    /\ quiz_progress = 0
    /\ quiz_score = 0
    /\ total_questions = 0

\* C18: reset_conversation, from any reachable state, leaves no stored
\* turn, the conversation active, no document (neither identifier nor
\* text) and the quiz reset: inactive, no questions, progress, score and
\* total 0.
C18_ResetYieldsInitialState ==
    [][ResetConversation => AsConstructed']_vars

\* the conversation was reset
C18_Witness ==
    /\ ret.op = "reset_conversation"
    /\ AsConstructed
    /\ last_error = None

(***************************************************************************)
(* C19                                                                     *)
(***************************************************************************)
\* C19: get_current_question returns the question at the cursor when a
\* quiz is in progress (active, cursor before the end of the questions) and
\* None in every other state, and it changes no attribute of the object.
C19_CurrentQuestionAtCursor ==
    [][CallGetCurrentQuestion =>
          /\ IF quiz_active /\ 0 <= quiz_progress /\ quiz_progress < Len(current_quiz)
             THEN seen'.question = Some(current_quiz[quiz_progress + 1])
             ELSE ~seen'.question.some
          /\ UNCHANGED <<conversation_active, chat_history, context, document_name,
                         quiz_active, current_quiz, quiz_progress, quiz_score,
                         total_questions, last_error, answer_history>>]_vars

\* the second question of a quiz was returned
C19_Witness ==
    /\ ret.op = "get_current_question"
    /\ seen.kind = "question"
    /\ quiz_active
    /\ quiz_progress = 1
    /\ seen.question = Some(current_quiz[2])
    /\ current_quiz[2] # current_quiz[1]

(***************************************************************************)
(* C20                                                                     *)
(***************************************************************************)
\* p tenths is score / total * 100 rounded to one decimal: no number of
\* tenths is nearer
NearestTenths(p, score, total) ==
    LET diff == p * total - 1000 * score
    IN 2 * (IF diff < 0 THEN -diff ELSE diff) <= total

\* C20: get_quiz_status reports as remaining the total less the progress
\* while the quiz is active and 0 when it is not, as percentage the score
\* over the total times 100 rounded to one decimal when the total is
\* positive and 0 when it is 0, and it changes no attribute of the object.
C20_StatusDerivedFields ==
    [][CallGetQuizStatus =>
          /\ seen'.status.remaining =
                 IF quiz_active THEN total_questions - quiz_progress ELSE 0
          /\ IF total_questions > 0
             THEN NearestTenths(seen'.status.percentage_tenths, quiz_score, total_questions)
             ELSE seen'.status.percentage_tenths = 0
          /\ UNCHANGED <<conversation_active, chat_history, context, document_name,
                         quiz_active, current_quiz, quiz_progress, quiz_score,
                         total_questions, last_error, answer_history>>]_vars

\* the status of a quiz of three questions after two correct answers:
\* 66.7 per cent, one question remaining
C20_Witness ==
    /\ ret.op = "get_quiz_status"
    /\ seen.kind = "status"
    /\ quiz_active
    /\ total_questions = 3
    /\ quiz_score = 2
    /\ seen.status.percentage_tenths = 667
    /\ seen.status.remaining = 1

(***************************************************************************)
(* C21                                                                     *)
(***************************************************************************)
\* C21: the option mapping of every question the parser returns has exactly
\* the four labels A, B, C, D as its keys; no other key is ever stored.
C21_OptionKeysAreLabels ==
    parse_result.some =>
        \A i \in 1..Len(parse_result.val) :
            DOMAIN parse_result.val[i].options = LabelStrs

(***************************************************************************)
(* C22                                                                     *)
(***************************************************************************)
\* the trimmed line begins with a decimal digit followed by ". "
BeginsNumbered(line) ==
    /\ Len(line) >= 3
    /\ IsDigit(line[1])
    /\ line[2] = "."
    /\ line[3] = " "

\* the accumulator open before the step is still the open one after it,
\* with no field lost
AccumulatorKept ==
    /\ parse_state.current_question.open
    /\ parse_state'.current_question.q.question = parse_state.current_question.q.question
    /\ DOMAIN parse_state.current_question.q.options
           \subseteq DOMAIN parse_state'.current_question.q.options
    /\ parse_state.current_question.q.correct.some
           => parse_state'.current_question.q.correct.some

\* C22: a new question accumulator is opened only by a line that begins
\* with a decimal digit followed by ". "; any other line leaves no
\* accumulator open that was not open before, and a line that starts with a
\* digit and has ". " only further on changes nothing: no question is
\* started and the open accumulator keeps its fields.
C22_NewQuestionOnlyOnNumberedLine ==
    [][\A line \in ParseLinePool :
           (~BeginsNumbered(Strip(line)) /\ ReadLine(line)) =>
               /\ parse_state'.current_question.open => AccumulatorKept
               /\ (Strip(line) # <<>> /\ IsDigit(Strip(line)[1]))
                      => parse_state' = parse_state]_vars

(***************************************************************************)
(* C25                                                                     *)
(***************************************************************************)
\* what the parser returns when the input ends after the lines read so far
ReturnedSoFar == ValidQuestions(FlushLast(parse_state))

\* s is an initial part of t
InitialPart(s, t) == Len(s) <= Len(t) /\ SubSeq(t, 1, Len(s)) = s

\* C25: every question the parser returns was finalized at an EXPLANATION:
\* line.  The returned questions are never more than the lines read that
\* start with EXPLANATION:; an accumulator that is open never carries an
\* explanation, so the flush after the loop adds no question; and reading
\* further lines only appends to what would be returned, at most one
\* question per EXPLANATION: line read, so the questions come back in the
\* order of the input.
C25_ReturnedFinalizedAtExplanation ==
    /\ [](/\ Len(ReturnedSoFar) <= parse_explanations
          /\ parse_result.some => Len(parse_result.val) <= parse_explanations
          /\ parse_state.current_question.open
                 => ~parse_state.current_question.q.explanation.some
          /\ FlushLast(parse_state) = parse_state.questions)
    /\ [][/\ InitialPart(ReturnedSoFar, ReturnedSoFar')
          /\ Len(ReturnedSoFar') - Len(ReturnedSoFar)
                 <= parse_explanations' - parse_explanations
          /\ parse_result'.some => parse_result'.val = ReturnedSoFar]_vars

C25_Witness ==
    /\ parse_result.some
    /\ parse_result.val = <<ExpectedQuestion(2), ExpectedQuestion(1)>>
    /\ parse_explanations = 2
    /\ parse_state.current_question.open
    /\ Len(parse_state.questions) = 2

(***************************************************************************)
(* C23                                                                     *)
(***************************************************************************)
\* C23: a load_document call that fails (unsupported extension, empty
\* content, a reader that raises) while a document is loaded returns no
\* content, records the error as the last error and leaves the loaded
\* document's identifier and text as they were.
C23_FailedLoadChangesNothing ==
    [][\A file \in Files :
           (DocumentLoaded /\ LoadResult(file).error.some /\ LoadDocument(file)) =>
               /\ ret'.text = <<>>
               /\ last_error' = LoadResult(file).error
               /\ document_name' = document_name
               /\ context' = context]_vars

(***************************************************************************)
(* C24                                                                     *)
(***************************************************************************)
\* C24: a generate_quiz call made while no document text is held, or whose
\* inference call raises, returns false, records its message as the last
\* error and leaves the question list, the progress, the score, the total
\* and the active flag as they were, also when a quiz is in progress.
C24_FailedGenerateKeepsQuiz ==
    [][\A inference \in QuizInferenceOutcomes :
           ((context = <<>> \/ inference.raised) /\ GenerateQuiz(inference)) =>
               /\ ret' = Returned("generate_quiz", FALSE, <<>>)
               /\ last_error' = Some(IF context = <<>>
                                     THEN NoDocumentMsg
                                     ELSE QuizGenerationErrorMsg \o inference.err)
               /\ current_quiz' = current_quiz
               /\ quiz_progress' = quiz_progress
               /\ quiz_score' = quiz_score
               /\ total_questions' = total_questions
               /\ quiz_active' = quiz_active]_vars

C24_Witness ==
    /\ ret = Returned("generate_quiz", FALSE, <<>>)
    /\ exchange.called
    /\ exchange.reply.raised
    /\ last_error = Some(QuizGenerationErrorMsg \o ConnectionRefused)
    /\ quiz_active
    /\ quiz_progress = 1
    /\ quiz_score = 1
    /\ total_questions = MaxQuestions

(***************************************************************************)
(* C26                                                                     *)
(***************************************************************************)
\* the questions of the runs over every operation that hold an end phrase
\* as a whole word
CoreEndWordQuestions == {question \in CoreQuestions : HasEndWord(question)}

\* C26: over any sequence of chat turns, document loads, quiz operations,
\* queries and resets, the conversation's active flag goes from true to
\* false only in a chat turn whose question holds an end phrase, and from
\* false to true only in a session reset.
C26_ActiveFlagChanges ==
    [][/\ (conversation_active /\ ~conversation_active') =>
              \E question \in CoreEndWordQuestions, inference \in CoreChatOutcomes :
                  AskQuestion(question, inference)
       /\ (~conversation_active /\ conversation_active') => ResetConversation]_vars

C26_Witness ==
    /\ ~conversation_active
    /\ ret = Returned("generate_quiz", TRUE, <<>>)
    /\ quiz_active
    /\ chat_history # <<>>

====
